---- MODULE Spec2Model ----
(***************************************************************************)
(* Model of hsk-vocab.py: the adaptive vocabulary drill.                   *)
(*                                                                         *)
(* Numbers.  Weights, penalties and rewards are kept in hundredths, so     *)
(* MIN_WEIGHT = 0.01 is 1 and MAX_WEIGHT = 10.0 is 1000; every constant of *)
(* the program is a whole number of hundredths.  Times are whole ticks.    *)
(* avg_time, the quotient total_time / attempts, and the proficiency       *)
(* percentage are exact rationals [n, d] in lowest terms, so that two      *)
(* quotients are equal exactly when the fractions are.                     *)
(*                                                                         *)
(* Objects.  A progress list is a Python list of dict objects.  progress   *)
(* is the list of object ids and heap maps an id to the dict's fields, so  *)
(* that two positions holding the same dict are visible as such.           *)
(*                                                                         *)
(* Steps.  The program only waits inside input(); one action is everything *)
(* the program does from one input() returning (or being interrupted) to   *)
(* the next input() call, or to the end of the process.                    *)
(***************************************************************************)
EXTENDS Integers, Sequences, FiniteSets, TLC

\* ------------------------------------------------------------ constants
PENALTY_HINT == 150
PENALTY_SKIP == 300
PENALTY_INCORRECT == 400
REWARD_STREAK == 25
REWARD_TIME == 50
REWARD_CORRECT == 100
MAX_WEIGHT == 1000
MIN_WEIGHT == 1
DEFAULT_HSK == 1

\* ------------------------------------------------------------ bounds
\* Turns (answers that are not a quit) one session may take.
MaxTurns == 2
\* Longest vocabulary list and longest stored list load_progress is given.
MaxItems == 2
MaxOld == 2
\* Longest progress list get_session_metadata is given on its own.
MaxStats == 2
\* Correct outcomes in a row applied to one record on its own.
MaxCorrect == 7

\* ------------------------------------------------------------ arithmetic
Min(a, b) == IF a <= b THEN a ELSE b
Max(a, b) == IF a >= b THEN a ELSE b
Abs(a) == IF a < 0 THEN -a ELSE a

RECURSIVE Gcd(_, _)
Gcd(a, b) == IF b = 0 THEN a ELSE Gcd(b, a % b)

\* The quotient n / d (d # 0) in lowest terms with a positive denominator.
Rat(n, d) ==
    LET g == Gcd(Abs(n), Abs(d))
        s == IF d < 0 THEN -1 ELSE 1
    IN  [n |-> (s * n) \div g, d |-> (s * d) \div g]

RInt(k) == [n |-> k, d |-> 1]
RSub(x, y) == Rat(x.n * y.d - y.n * x.d, x.d * y.d)
RMul(x, y) == Rat(x.n * y.n, x.d * y.d)
RDiv(x, y) == Rat(x.n * y.d, x.d * y.n)
RLess(x, y) == x.n * y.d < y.n * x.d
RMin(x, y) == IF RLess(y, x) THEN y ELSE x
RMax(x, y) == IF RLess(x, y) THEN y ELSE x

RECURSIVE SumSeq(_)
SumSeq(s) == IF s = <<>> THEN 0 ELSE Head(s) + SumSeq(Tail(s))

\* ------------------------------------------------------------ strings
\* A string is a sequence of characters.
LowerChar(c) ==
    CASE c = "A" -> "a" [] c = "H" -> "h" [] c = "Q" -> "q"
      [] c = "S" -> "s" [] c = "X" -> "x" [] OTHER -> c

\* Python's s.lower()
Lower(s) == [i \in 1..Len(s) |-> LowerChar(s[i])]

RECURSIVE LStrip(_)
LStrip(s) == IF s # <<>> /\ Head(s) = " " THEN LStrip(Tail(s)) ELSE s

RECURSIVE RStrip(_)
RStrip(s) ==
    IF s # <<>> /\ s[Len(s)] = " " THEN RStrip(SubSeq(s, 1, Len(s) - 1)) ELSE s

Strip(s) == RStrip(LStrip(s))

\* Python's `x in y` for two strings: x is a substring of y.
IsSubstring(x, y) ==
    \E k \in 0..(Len(y) - Len(x)) : SubSeq(y, k + 1, k + Len(x)) = x

\* Python's s.replace(" ", "")
RECURSIVE NoSpaces(_)
NoSpaces(s) ==
    IF s = <<>> THEN <<>>
    ELSE IF Head(s) = " " THEN NoSpaces(Tail(s))
    ELSE <<Head(s)>> \o NoSpaces(Tail(s))

\* ------------------------------------------------------------ vocabulary
\* A vocabulary item is a dict; of its keys the program's logic reads
\* 'simplified', 'pinyin' and 'english_concise'.  has_simplified says whether
\* the key 'simplified' is present.  pinyin is a string or a list of strings.
NA == <<"N", "/", "A">>

ItemMa ==
    [has_simplified |-> TRUE, simplified |-> <<"m">>,
     pinyin |-> [is_list |-> FALSE, str |-> <<"m", " ", "1">>, list |-> <<>>],
     english_concise |-> <<"A", "x">>]

ItemNi ==
    [has_simplified |-> TRUE, simplified |-> <<"n">>,
     pinyin |-> [is_list |-> TRUE, str |-> <<>>,
                 list |-> << <<"n">>, <<"n", " ", "3">> >>],
     english_concise |-> <<"z">>]

ItemNoKey ==
    [has_simplified |-> FALSE, simplified |-> <<>>,
     pinyin |-> [is_list |-> FALSE, str |-> <<"k">>, list |-> <<>>],
     english_concise |-> <<"w">>]

\* w.get('simplified', 'N/A')
WordKey(w) == IF w.has_simplified THEN w.simplified ELSE NA

\* ------------------------------------------------------------ progress
DefaultRecord(word_char) ==
    [word |-> word_char, weight |-> MAX_WEIGHT, streak |-> 0,
     avg_time |-> RInt(0), total_time |-> 0, attempts |-> 0, correct |-> 0]

\* The list of dicts that a list of object ids stands for.
Deref(h, refs) == [i \in 1..Len(refs) |-> h[refs[i]]]

\* A new list of new dicts, one per vocabulary item: objects 1..len(data).
\* get_default_progress building one dict and repeating it for every item.
get_default_progress_one_dict(data) ==
    [heap |-> [i \in 1..Min(1, Len(data)) |-> DefaultRecord(WordKey(data[1]))],
     refs |-> [i \in 1..Len(data) |-> 1]]

get_default_progress(data) ==
    [heap |-> [i \in 1..Len(data) |-> DefaultRecord(WordKey(data[i]))],
     refs |-> [i \in 1..Len(data) |-> i]]

\* old_prog_map: the dict comprehension keeps, for a key that occurs more
\* than once, the last item with that key; items without 'word' are left out.
InOldProgMap(old_prog, word_char) ==
    \E j \in 1..Len(old_prog) :
        old_prog[j].has_word /\ old_prog[j].rec.word = word_char

\* OldProgMap keeping the first item stored under a word, not the last.
OldProgMapFirst(old_prog, word_char) ==
    CHOOSE j \in 1..Len(old_prog) :
        /\ old_prog[j].has_word /\ old_prog[j].rec.word = word_char
        /\ \A k \in 1..(j - 1) :
              ~(old_prog[k].has_word /\ old_prog[k].rec.word = word_char)

OldProgMap(old_prog, word_char) ==
    CHOOSE j \in 1..Len(old_prog) :
        /\ old_prog[j].has_word /\ old_prog[j].rec.word = word_char
        /\ \A k \in (j + 1)..Len(old_prog) :
              ~(old_prog[k].has_word /\ old_prog[k].rec.word = word_char)

\* The merge loop.  The dicts of old_prog are objects 1..len(old_prog); the
\* dict made for position i of data is object len(old_prog) + i.  A position
\* whose word is in old_prog_map gets that very dict: two positions with the
\* same word get the same object.
MergeProgress(data, old_prog) ==
    LET ref(i) == IF InOldProgMap(old_prog, WordKey(data[i]))
                  THEN OldProgMap(old_prog, WordKey(data[i]))
                  ELSE Len(old_prog) + i
        refs == [i \in 1..Len(data) |-> ref(i)]
        ids == {refs[i] : i \in 1..Len(data)}
    IN  [heap |-> [id \in ids |->
                      IF id <= Len(old_prog) THEN old_prog[id].rec
                      ELSE DefaultRecord(WordKey(data[id - Len(old_prog)]))],
         refs |-> refs]

\* The progress file: missing, unparseable, or a list of dicts.
load_progress(data, file) ==
    IF file.kind = "missing" THEN get_default_progress(data)
    ELSE IF file.kind = "corrupt" THEN get_default_progress(data)
    ELSE MergeProgress(data, file.items)

\* json.dump cut short: the last dict of the list is not written.
JsonDumpTruncated(progress_data) ==
    [kind |-> "list",
     items |-> [i \in 1..(Len(progress_data) - 1) |->
                   [has_word |-> TRUE, rec |-> progress_data[i]]]]

\* json.dump of the list, an item per position, then what json.load reads.
JsonDump(progress_data) ==
    [kind |-> "list",
     items |-> [i \in 1..Len(progress_data) |->
                   [has_word |-> TRUE, rec |-> progress_data[i]]]]

\* ------------------------------------------------------------ quiz logic
\* apply_skip without line 388, the attempt counted.
apply_skip_uncounted(prog_item) ==
    [prog_item EXCEPT !.weight = Min(MAX_WEIGHT, prog_item.weight + PENALTY_SKIP),
                      !.streak = 0]

\* apply_skip without line 387, the streak reset.
apply_skip_keeps_streak(prog_item) ==
    [prog_item EXCEPT !.weight = Min(MAX_WEIGHT, prog_item.weight + PENALTY_SKIP),
                      !.attempts = prog_item.attempts + 1]

\* Lines 386-388.
apply_skip(prog_item) ==
    [prog_item EXCEPT !.weight = Min(MAX_WEIGHT, prog_item.weight + PENALTY_SKIP),
                      !.streak = 0,
                      !.attempts = prog_item.attempts + 1]

\* Line 398 written with = in place of +=.
add_elapsed_overwrites(elapsed, after_hint) == after_hint

\* Line 398: elapsed_time += (end_time_after_hint - start_time_after_hint)
add_elapsed(elapsed, after_hint) == elapsed + after_hint

\* Line 393.
apply_hint(prog_item) ==
    [prog_item EXCEPT !.weight = Min(MAX_WEIGHT, prog_item.weight + PENALTY_HINT)]

\* Lines 401-402.
update_time_stats(prog_item, elapsed_time) ==
    [prog_item EXCEPT !.attempts = prog_item.attempts + 1,
                      !.total_time = prog_item.total_time + elapsed_time]

\* The reward without line 411's streak term.
RewardWithoutStreak(prog_item, elapsed_time) ==
    IF /\ RLess(RInt(0), prog_item.avg_time)
       /\ RLess(RInt(elapsed_time), prog_item.avg_time)
    THEN REWARD_CORRECT + REWARD_TIME
    ELSE REWARD_CORRECT

\* Lines 411-413; prog_item has the new streak and still the old avg_time.
Reward(prog_item, elapsed_time) ==
    LET reward == REWARD_CORRECT + REWARD_STREAK * prog_item.streak
    IN  IF /\ RLess(RInt(0), prog_item.avg_time)
           /\ RLess(RInt(elapsed_time), prog_item.avg_time)
        THEN reward + REWARD_TIME
        ELSE reward

\* apply_correct with line 415 written without max(MIN_WEIGHT, ...).
apply_correct_unclamped(prog_item, elapsed_time) ==
    LET p == [prog_item EXCEPT !.correct = prog_item.correct + 1,
                               !.streak = prog_item.streak + 1]
    IN  [p EXCEPT !.weight = p.weight - Reward(p, elapsed_time)]

\* Lines 407-415.
apply_correct(prog_item, elapsed_time) ==
    LET p == [prog_item EXCEPT !.correct = prog_item.correct + 1,
                               !.streak = prog_item.streak + 1]
    IN  [p EXCEPT !.weight = Max(MIN_WEIGHT, p.weight - Reward(p, elapsed_time))]

\* apply_incorrect that also counts the answer as correct.
apply_incorrect_counts_correct(prog_item) ==
    [prog_item EXCEPT !.streak = 0,
                      !.correct = prog_item.correct + 1,
                      !.weight = Min(MAX_WEIGHT, prog_item.weight + PENALTY_INCORRECT)]

\* apply_incorrect with the skip's penalty.
apply_incorrect_skip_penalty(prog_item) ==
    [prog_item EXCEPT !.streak = 0,
                      !.weight = Min(MAX_WEIGHT, prog_item.weight + PENALTY_SKIP)]

\* Lines 420-421.
apply_incorrect(prog_item) ==
    [prog_item EXCEPT !.streak = 0,
                      !.weight = Min(MAX_WEIGHT, prog_item.weight + PENALTY_INCORRECT)]

\* Line 425.
update_avg_time(prog_item) ==
    [prog_item EXCEPT !.avg_time = Rat(prog_item.total_time, prog_item.attempts)]

\* apply_answer with line 425 moved before the answer is checked, so that the
\* reward reads the recomputed avg_time.
apply_answer_avg_first(prog_item, is_correct, elapsed_time) ==
    LET p == update_avg_time(update_time_stats(prog_item, elapsed_time))
    IN  IF is_correct THEN apply_correct(p, elapsed_time) ELSE apply_incorrect(p)

\* Lines 400-430: the answer is judged.
apply_answer(prog_item, is_correct, elapsed_time) ==
    LET p == update_time_stats(prog_item, elapsed_time)
    IN  update_avg_time(IF is_correct THEN apply_correct(p, elapsed_time)
                        ELSE apply_incorrect(p))

\* get_quiz_item_data: the list of accepted answers.
Answers(item, chinese_to_english) ==
    IF chinese_to_english
    THEN << Lower(IF item.has_simplified THEN item.simplified ELSE <<>>),
            Lower(NoSpaces(IF item.pinyin.is_list /\ Len(item.pinyin.list) > 1
                           THEN item.pinyin.list[2]
                           ELSE item.pinyin.str)) >>
    ELSE << Lower(item.english_concise) >>

check_answer(user_input, answer_list, chinese_to_english) ==
    IF chinese_to_english
    THEN \E k \in 1..Len(answer_list) : answer_list[k] = user_input
    ELSE IsSubstring(user_input, answer_list[1])

\* ------------------------------------------------------------ statistics
\* get_session_metadata dividing the average weight by the range without
\* taking MIN_WEIGHT off it first.
get_session_metadata_unshifted(progress_data) ==
    IF progress_data = <<>> THEN [proficiency |-> RInt(0), total_time |-> 0]
    ELSE
      LET total_weight == SumSeq([i \in 1..Len(progress_data) |-> progress_data[i].weight])
          total_time == SumSeq([i \in 1..Len(progress_data) |-> progress_data[i].total_time])
          avg_weight == Rat(total_weight, Len(progress_data))
          weight_range == RInt(MAX_WEIGHT - MIN_WEIGHT)
          normalized_avg_difficulty == RDiv(avg_weight, weight_range)
          proficiency_percent ==
              RMul(RSub(RInt(1), normalized_avg_difficulty), RInt(100))
      IN  [proficiency |-> RMax(RInt(0), RMin(RInt(100), proficiency_percent)),
           total_time |-> total_time]

get_session_metadata(progress_data) ==
    IF progress_data = <<>> THEN [proficiency |-> RInt(0), total_time |-> 0]
    ELSE
      LET total_weight == SumSeq([i \in 1..Len(progress_data) |-> progress_data[i].weight])
          total_time == SumSeq([i \in 1..Len(progress_data) |-> progress_data[i].total_time])
          avg_weight == Rat(total_weight, Len(progress_data))
          weight_range == RInt(MAX_WEIGHT - MIN_WEIGHT)
          normalized_avg_difficulty ==
              RDiv(RSub(avg_weight, RInt(MIN_WEIGHT)), weight_range)
          proficiency_percent ==
              RMul(RSub(RInt(1), normalized_avg_difficulty), RInt(100))
      IN  [proficiency |-> RMax(RInt(0), RMin(RInt(100), proficiency_percent)),
           total_time |-> total_time]

\* ------------------------------------------------------------ inputs
\* The vocabulary files json/hsk<level>.json may hold.
Vocabularies ==
    { <<>>, <<ItemMa>>, <<ItemMa, ItemNi>>, <<ItemMa, ItemMa>> }

\* Records an earlier session wrote: three correct answers (2, 1 and 2 ticks,
\* the second with the time bonus), six correct answers of 1 tick each, and
\* one correct answer of 3 ticks.
RecMa ==
    [word |-> <<"m">>, weight |-> 500, streak |-> 3,
     avg_time |-> Rat(5, 3), total_time |-> 5, attempts |-> 3, correct |-> 3]

RecNi ==
    [word |-> <<"n">>, weight |-> MIN_WEIGHT, streak |-> 6,
     avg_time |-> RInt(1), total_time |-> 6, attempts |-> 6, correct |-> 6]

RecGone ==
    [word |-> <<"g">>, weight |-> 875, streak |-> 1,
     avg_time |-> RInt(3), total_time |-> 3, attempts |-> 1, correct |-> 1]

RecMaOld ==
    [word |-> <<"m">>, weight |-> 875, streak |-> 1,
     avg_time |-> RInt(3), total_time |-> 3, attempts |-> 1, correct |-> 1]

\* A record written after one correct answer of 3 ticks and two skips.
RecMaSkipped ==
    [word |-> <<"m">>, weight |-> MAX_WEIGHT, streak |-> 0,
     avg_time |-> RInt(3), total_time |-> 3, attempts |-> 3, correct |-> 1]

FileMissing == [kind |-> "missing", items |-> <<>>]
FileCorrupt == [kind |-> "corrupt", items |-> <<>>]
FileList(items) == [kind |-> "list", items |-> items]
WithWord(rec) == [has_word |-> TRUE, rec |-> rec]
WithoutWord(rec) == [has_word |-> FALSE, rec |-> rec]

\* The progress files a session may find: none, one that does not parse, and
\* a list with a word stored twice, an item without 'word', a word that has
\* left the vocabulary, and the words of the vocabulary; and a list with a
\* word that was last skipped.
ProgressFiles ==
    { FileMissing, FileCorrupt,
      FileList(<< WithWord(RecMaOld), WithoutWord(RecNi), WithWord(RecGone),
                  WithWord(RecMa), WithWord(RecNi) >>),
      FileList(<< WithWord(RecMaSkipped) >>) }

\* A stored record whose word is the placeholder key.
RecNA ==
    [word |-> NA, weight |-> 875, streak |-> 1,
     avg_time |-> RInt(1), total_time |-> 1, attempts |-> 1, correct |-> 1]

SeqsUpTo(S, n) == UNION { [1..k -> S] : k \in 0..n }

\* The inputs of load_progress taken on its own.
LoadVocabularies == SeqsUpTo({ItemMa, ItemNi, ItemNoKey}, MaxItems)

LoadFiles ==
    { FileMissing, FileCorrupt } \cup
    { FileList(items) :
        items \in SeqsUpTo({ WithWord(RecMa), WithWord(RecMaOld), WithWord(RecNi),
                             WithWord(RecGone), WithWord(RecNA),
                             WithoutWord(RecNi) }, MaxOld) }

\* What the learner types at "Select HSK Level": nothing, a level whose file
\* is read, a number out of range, and text that is no number.
LevelInputs == { "", "1", "5", "x" }

\* Token lists typed at the settings prompt, after tokenize_input.
TokenInputs ==
    { <<>>, <<"R">>, <<"EC">>, <<"P">>, <<"Q">>, <<"X">>,
      <<"R", "X">>, <<"EC", "Q">>, <<"R", "EC">> }

\* Lines typed at the answer prompts, before strip() and lower().
AnswerInputs ==
    { <<"-", "q">>, <<" ", "-", "S">>, <<"-", "s">>, <<"-", "h">>, <<>>,
      <<"m">>, <<"m", "1">>, <<"A", "X", " ">>, <<"x">>,
      <<"n">>, <<"n", "3">>, <<"z">>, <<"k">>, <<"w">>, <<"?">> }

\* Waiting periods time.time() measures at one prompt, in ticks.
Elapsed == { 1, 3 }

\* ------------------------------------------------------------ state
VARIABLES
    pc,                   \* the input() the program waits in, or "done"
    file,                 \* the progress file g_progress_file_path
    g_hsk_level, g_chinese_to_english, g_random_mode, g_in_order_index,
    locals,               \* the names bound in main's frame
    data, progress, heap, \* main's data and progress (object ids), the dicts
    session_correct, session_attempts,
    start_proficiency, start_total_time,
    index, elapsed_time,  \* the item in the running turn, its elapsed_time
    exc,                  \* the exception main ends with, "" for none
    saved,                \* the calls of save_progress, in order
    last                  \* what the last step did, and to which record

vars ==
    << pc, file, g_hsk_level, g_chinese_to_english, g_random_mode,
       g_in_order_index, locals, data, progress, heap, session_correct,
       session_attempts, start_proficiency, start_total_time, index,
       elapsed_time, exc, saved, last >>

NoRecord == DefaultRecord(<<>>)

\* op: what the step did; at: the input() it started from; index and pre: the
\* item of the turn and its dict before the step; waits: the waiting periods
\* of the turn so far.
Event(op, at, i, pre, waits) ==
    [op |-> op, at |-> at, index |-> i, pre |-> pre, waits |-> waits]

Init ==
    /\ pc = "level"
    /\ file \in ProgressFiles
    /\ g_hsk_level = 0
    /\ g_chinese_to_english = TRUE
    /\ g_random_mode = TRUE
    /\ g_in_order_index = 0
    /\ locals = {}
    /\ data = <<>>
    /\ progress = <<>>
    /\ heap = <<>>
    /\ session_correct = 0
    /\ session_attempts = 0
    /\ start_proficiency = RInt(0)
    /\ start_total_time = 0
    /\ index = 0
    /\ elapsed_time = 0
    /\ exc = ""
    /\ saved = <<>>
    /\ last = Event("none", "", 0, NoRecord, <<>>)

\* ------------------------------------------------------------ session setup
\* validate_tokens over the token list; g holds the two flags the quiz logic
\* reads, errs (an invalid token was seen) and exit (sys.exit was called).
\* The tokens P, S and M toggle display flags, which the model leaves out.
RECURSIVE validate_tokens(_, _)
validate_tokens(tokens, g) ==
    IF tokens = <<>> THEN g
    ELSE LET token == Head(tokens)
         IN  IF token = "Q" THEN [g EXCEPT !.exit = TRUE]
             ELSE validate_tokens(Tail(tokens),
                    CASE token = "EC" -> [g EXCEPT !.c2e = ~g.c2e]
                      [] token = "R" -> [g EXCEPT !.random = ~g.random]
                      [] token \in {"P", "S", "M"} -> g
                      [] OTHER -> [g EXCEPT !.errs = TRUE])

\* ------------------------------------------------------------ persistence
\* save_progress: the file after the call; written is FALSE when open() or
\* makedirs() raises IOError, which the function catches.
save_progress(progress_data, f, written) ==
    IF written THEN JsonDump(progress_data) ELSE f

\* Finally with save_progress called only when the try block ended without
\* an exception.
FinallySaveOnCleanExit(h, lcls, pending) ==
    IF "progress" \notin lcls
    THEN /\ pc' = "done"
         /\ exc' = pending
         /\ UNCHANGED << file, saved >>
    ELSE \E written \in BOOLEAN :
           /\ saved' = IF pending = ""
                        THEN Append(saved, [progress_data |-> Deref(h, progress),
                                            written |-> written])
                        ELSE saved
           /\ file' = IF pending = ""
                       THEN save_progress(Deref(h, progress), file, written)
                       ELSE file
           /\ IF "start_total_time" \in lcls
              THEN pc' = "summary" /\ exc' = pending
              ELSE pc' = "done" /\ exc' = "UnboundLocalError"

\* main's finally clause, with the dicts h and the exception that left the
\* try block (pending, "" for none): up to the summary's input(), or to the
\* end of the process.
Finally(h, lcls, pending) ==
    IF "progress" \notin lcls
    THEN /\ pc' = "done"
         /\ exc' = pending
         /\ UNCHANGED << file, saved >>
    ELSE \E written \in BOOLEAN :
           /\ saved' = Append(saved, [progress_data |-> Deref(h, progress),
                                      written |-> written])
           /\ file' = save_progress(Deref(h, progress), file, written)
           /\ IF "start_total_time" \in lcls
              THEN pc' = "summary" /\ exc' = pending
              ELSE pc' = "done" /\ exc' = "UnboundLocalError"

\* ------------------------------------------------------------ selection
\* random.choices(indices, weights, k=1)[0]: the indices it can return.
\* random.choices never returning an item at the lowest weight.
RandomChoicesAboveMin(data_len, weights) ==
    { i \in 0..(data_len - 1) : weights[i + 1] > MIN_WEIGHT }

RandomChoices(data_len, weights) ==
    { i \in 0..(data_len - 1) : weights[i + 1] > 0 }

\* Line 277 without the modulo: the cursor runs past the end of the list.
advance_in_order_no_wrap(in_order_index, data_len) ==
    in_order_index + 1

\* Line 277: the cursor of sequential mode after a selection.
advance_in_order(in_order_index, data_len) ==
    (in_order_index + 1) % data_len

\* The top of main's loop, with the dicts h: get_next_index, then
\* run_quiz_for_item up to its first input().
NextTurn(h, lcls, random_mode) ==
    LET data_len == Len(data)
        weights == [i \in 1..Len(progress) |-> h[progress[i]].weight]
    IN  IF random_mode
        THEN IF data_len = 0
             THEN /\ Finally(h, lcls, "IndexError")
                  /\ UNCHANGED << index, g_in_order_index >>
             ELSE IF SumSeq(weights) <= 0
             THEN /\ Finally(h, lcls, "ValueError")
                  /\ UNCHANGED << index, g_in_order_index >>
             ELSE /\ \E selected_index \in RandomChoices(data_len, weights) :
                        index' = selected_index
                  /\ pc' = "continue"
                  /\ UNCHANGED << g_in_order_index, exc, file, saved >>
        ELSE IF data_len = 0
             THEN /\ Finally(h, lcls, "ZeroDivisionError")
                  /\ UNCHANGED << index, g_in_order_index >>
             ELSE /\ index' = g_in_order_index
                  /\ g_in_order_index' = advance_in_order(g_in_order_index, data_len)
                  /\ pc' = "continue"
                  /\ UNCHANGED << exc, file, saved >>

\* ------------------------------------------------------------ actions
\* get_hsk_file, then load_progress and set_session_settings up to input().
GetHskFile ==
    /\ pc = "level"
    /\ \E inpt \in LevelInputs :
         IF inpt = "x"
         THEN UNCHANGED vars
         ELSE LET level == IF inpt = "" THEN DEFAULT_HSK
                           ELSE IF inpt = "1" THEN 1 ELSE 5
              IN  /\ g_hsk_level' = level
                  /\ IF 1 <= level /\ level <= 4
                     THEN \E hsk_file \in Vocabularies :
                            LET loaded == load_progress(hsk_file, file)
                            IN  /\ data' = hsk_file
                                /\ progress' = loaded.refs
                                /\ heap' = loaded.heap
                                /\ locals' = {"data", "progress"}
                                /\ pc' = "settings"
                                /\ last' = Event("load", pc, 0, NoRecord, <<>>)
                     ELSE UNCHANGED << data, progress, heap, locals, pc, last >>
                  /\ UNCHANGED << file, g_chinese_to_english, g_random_mode,
                                  g_in_order_index, session_correct,
                                  session_attempts, start_proficiency,
                                  start_total_time, index, elapsed_time, exc,
                                  saved >>

\* set_session_settings from its input(), then main up to the first turn.
Settings ==
    /\ pc = "settings"
    /\ \E tokens \in TokenInputs :
         LET v == validate_tokens(tokens,
                    [c2e |-> g_chinese_to_english, random |-> g_random_mode,
                     errs |-> FALSE, exit |-> FALSE])
             m == get_session_metadata(Deref(heap, progress))
             bound == locals \cup {"session_correct", "session_attempts",
                                   "start_proficiency", "start_total_time"}
         IN  /\ g_chinese_to_english' = v.c2e
             /\ g_random_mode' = v.random
             /\ last' = Event("settings", pc, 0, NoRecord, <<>>)
             /\ UNCHANGED << g_hsk_level, data, progress, heap, elapsed_time >>
             /\ IF v.exit
                THEN /\ Finally(heap, locals, "SystemExit")
                     /\ UNCHANGED << locals, session_correct, session_attempts,
                                     start_proficiency, start_total_time,
                                     index, g_in_order_index >>
                ELSE IF v.errs
                THEN UNCHANGED << pc, locals, session_correct, session_attempts,
                                  start_proficiency, start_total_time, index,
                                  g_in_order_index, exc, file, saved >>
                ELSE /\ locals' = bound
                     /\ session_correct' = 0
                     /\ session_attempts' = 0
                     /\ start_proficiency' = m.proficiency
                     /\ start_total_time' = m.total_time
                     /\ NextTurn(heap, bound, v.random)

\* "Press Enter To Continue...": the prompt is shown and the clock started.
Continue ==
    /\ pc = "continue"
    /\ pc' = "answer"
    /\ last' = Event("present", pc, index, heap[progress[index + 1]], <<>>)
    /\ UNCHANGED << file, g_hsk_level, g_chinese_to_english, g_random_mode,
                    g_in_order_index, locals, data, progress, heap,
                    session_correct, session_attempts, start_proficiency,
                    start_total_time, index, elapsed_time, exc, saved >>

\* Lines 400-430 and main's lines 539-543, then the next turn.
Judge(inpt, elapsed, waits) ==
    LET id == progress[index + 1]
        prog_item == heap[id]
        is_correct == check_answer(inpt,
                          Answers(data[index + 1], g_chinese_to_english),
                          g_chinese_to_english)
        h == [heap EXCEPT ![id] = apply_answer(prog_item, is_correct, elapsed)]
    IN  /\ heap' = h
        /\ session_correct' = IF is_correct THEN session_correct + 1
                              ELSE session_correct
        /\ session_attempts' = session_attempts + 1
        /\ elapsed_time' = 0
        /\ last' = Event(IF is_correct THEN "correct" ELSE "incorrect",
                         pc, index, prog_item, waits)
        /\ NextTurn(h, locals, g_random_mode)

\* Lines 381-383 with a mistaken order: the quit command counted as an attempt.
quit_turn_counts_attempt(prog_item) ==
    [prog_item EXCEPT !.attempts = prog_item.attempts + 1]

\* Lines 381-383: the quit command returns before any field is assigned.
quit_turn(prog_item) ==
    prog_item

\* The first answer prompt of run_quiz_for_item (line 374) returns.
Answer ==
    /\ pc = "answer"
    /\ \E raw \in AnswerInputs, e \in Elapsed :
         LET inpt == Lower(Strip(raw))
             id == progress[index + 1]
             prog_item == heap[id]
         IN  /\ UNCHANGED << g_hsk_level, g_chinese_to_english, g_random_mode,
                             locals, data, progress, start_proficiency,
                             start_total_time >>
             /\ IF inpt = <<"-", "q">>
                THEN LET h == [heap EXCEPT ![id] = quit_turn(prog_item)]
                     IN  /\ heap' = h
                         /\ last' = Event("quit", pc, index, prog_item, <<e>>)
                         /\ Finally(h, locals, "")
                         /\ UNCHANGED << session_correct, session_attempts,
                                         index, g_in_order_index, elapsed_time >>
                ELSE /\ session_attempts < MaxTurns
                     /\ IF inpt = <<"-", "s">>
                        THEN LET h == [heap EXCEPT ![id] = apply_skip(prog_item)]
                             IN  /\ heap' = h
                                 /\ session_attempts' = session_attempts + 1
                                 /\ last' = Event("skipped", pc, index, prog_item, <<e>>)
                                 /\ NextTurn(h, locals, g_random_mode)
                                 /\ UNCHANGED << session_correct, elapsed_time >>
                        ELSE IF inpt = <<"-", "h">>
                        THEN /\ heap' = [heap EXCEPT ![id] = apply_hint(prog_item)]
                             /\ elapsed_time' = e
                             /\ pc' = "hint"
                             /\ last' = Event("hint", pc, index, prog_item, <<e>>)
                             /\ UNCHANGED << session_correct, session_attempts,
                                             index, g_in_order_index, exc, file,
                                             saved >>
                        ELSE Judge(inpt, e, <<e>>)

\* The prompt after the hint (line 396) returns.
HintAnswer ==
    /\ pc = "hint"
    /\ \E raw \in AnswerInputs, e \in Elapsed :
         Judge(Lower(Strip(raw)), add_elapsed(elapsed_time, e), Append(last.waits, e))
    /\ UNCHANGED << g_hsk_level, g_chinese_to_english, g_random_mode, locals,
                    data, progress, start_proficiency, start_total_time >>

\* Ctrl-C (KeyboardInterrupt, which main catches) or end of input (EOFError,
\* which it does not) at an input() of the try block.
Interrupt ==
    /\ pc \in {"level", "settings", "continue", "answer", "hint"}
    /\ \E signal \in {"KeyboardInterrupt", "EOFError"} :
         Finally(heap, locals, IF signal = "KeyboardInterrupt" THEN "" ELSE signal)
    /\ elapsed_time' = 0
    /\ last' = Event("interrupt", pc, index, NoRecord, <<>>)
    /\ UNCHANGED << g_hsk_level, g_chinese_to_english, g_random_mode,
                    g_in_order_index, locals, data, progress, heap,
                    session_correct, session_attempts, start_proficiency,
                    start_total_time, index >>

\* "Press Enter To Exit...": Enter ends the process with the pending
\* exception; Ctrl-C there leaves the finally clause with KeyboardInterrupt
\* instead.
SummaryExit ==
    /\ pc = "summary"
    /\ pc' = "done"
    /\ \E signal \in {"", "KeyboardInterrupt"} :
         exc' = IF signal = "" THEN exc ELSE signal
    /\ last' = Event("exit", pc, index, NoRecord, <<>>)
    /\ UNCHANGED << file, g_hsk_level, g_chinese_to_english, g_random_mode,
                    g_in_order_index, locals, data, progress, heap,
                    session_correct, session_attempts, start_proficiency,
                    start_total_time, index, elapsed_time, saved >>

Next ==
    \/ GetHskFile
    \/ Settings
    \/ Continue
    \/ Answer
    \/ HintAnswer
    \/ Interrupt
    \/ SummaryExit

Spec == Init /\ [][Next]_vars

\* ------------------------------------------------------------ load alone
\* load_progress applied to a vocabulary list and a progress file.
InitLoad ==
    /\ pc = "load"
    /\ file \in LoadFiles
    /\ data \in LoadVocabularies
    /\ g_hsk_level = DEFAULT_HSK
    /\ g_chinese_to_english = TRUE
    /\ g_random_mode = TRUE
    /\ g_in_order_index = 0
    /\ locals = {"data"}
    /\ progress = <<>>
    /\ heap = <<>>
    /\ session_correct = 0
    /\ session_attempts = 0
    /\ start_proficiency = RInt(0)
    /\ start_total_time = 0
    /\ index = 0
    /\ elapsed_time = 0
    /\ exc = ""
    /\ saved = <<>>
    /\ last = Event("none", "", 0, NoRecord, <<>>)

LoadProgress ==
    /\ pc = "load"
    /\ LET loaded == load_progress(data, file)
       IN  /\ progress' = loaded.refs
           /\ heap' = loaded.heap
    /\ locals' = {"data", "progress"}
    /\ pc' = "loaded"
    /\ last' = Event("load", pc, 0, NoRecord, <<>>)
    /\ UNCHANGED << file, data, g_hsk_level, g_chinese_to_english,
                    g_random_mode, g_in_order_index, session_correct,
                    session_attempts, start_proficiency, start_total_time,
                    index, elapsed_time, exc, saved >>

NextLoad == LoadProgress

SpecLoad == InitLoad /\ [][NextLoad]_vars

\* ------------------------------------------------------- save, then load
\* save_progress applied to a progress list that matches a vocabulary list
\* position by position, followed by load_progress against the same list.
\* The fields of a record are drawn from the records below; the file that is
\* overwritten is missing or holds an older list.
RoundTripBodies == { DefaultRecord(<<>>), RecMa, RecNi }

RoundTripFiles == { FileMissing, FileList(<< WithWord(RecMaOld) >>) }

InitRoundTrip ==
    /\ pc = "save"
    /\ file \in RoundTripFiles
    /\ data \in LoadVocabularies
    /\ \E bodies \in [1..Len(data) -> RoundTripBodies] :
          /\ progress = [i \in 1..Len(data) |-> i]
          /\ heap = [i \in 1..Len(data) |->
                       [bodies[i] EXCEPT !.word = WordKey(data[i])]]
    /\ g_hsk_level = DEFAULT_HSK
    /\ g_chinese_to_english = TRUE
    /\ g_random_mode = TRUE
    /\ g_in_order_index = 0
    /\ locals = {"data", "progress"}
    /\ session_correct = 0
    /\ session_attempts = 0
    /\ start_proficiency = RInt(0)
    /\ start_total_time = 0
    /\ index = 0
    /\ elapsed_time = 0
    /\ exc = ""
    /\ saved = <<>>
    /\ last = Event("none", "", 0, NoRecord, <<>>)

\* save_progress (lines 249-257); the write succeeds or fails with IOError.
SaveProgress ==
    /\ pc = "save"
    /\ \E written \in BOOLEAN :
          /\ saved' = Append(saved, [progress_data |-> Deref(heap, progress),
                                     written |-> written])
          /\ file' = save_progress(Deref(heap, progress), file, written)
    /\ pc' = "load"
    /\ last' = Event("save", pc, 0, NoRecord, <<>>)
    /\ UNCHANGED << data, progress, heap, locals, g_hsk_level,
                    g_chinese_to_english, g_random_mode, g_in_order_index,
                    session_correct, session_attempts, start_proficiency,
                    start_total_time, index, elapsed_time, exc >>

NextRoundTrip ==
    \/ SaveProgress
    \/ LoadProgress

SpecRoundTrip == InitRoundTrip /\ [][NextRoundTrip]_vars

\* ------------------------------------------------------ statistics alone
\* get_session_metadata applied, twice in a row, to a progress list of up to
\* MaxStats records.  The weights include values a hand-edited file could
\* hold outside [MIN_WEIGHT, MAX_WEIGHT], which the clamp of line 457 meets.
StatsWeights == { 0, MIN_WEIGHT, 500, MAX_WEIGHT, 1200 }

StatsTimes == { 0, 3 }

InitStats ==
    /\ pc = "stats"
    /\ \E n \in 0..MaxStats :
          \E w \in [1..n -> StatsWeights], t \in [1..n -> StatsTimes] :
             /\ progress = [i \in 1..n |-> i]
             /\ heap = [i \in 1..n |->
                          [DefaultRecord(<<"m">>) EXCEPT !.weight = w[i],
                                                         !.total_time = t[i]]]
    /\ file = FileMissing
    /\ data = <<>>
    /\ g_hsk_level = DEFAULT_HSK
    /\ g_chinese_to_english = TRUE
    /\ g_random_mode = TRUE
    /\ g_in_order_index = 0
    /\ locals = {"progress"}
    /\ session_correct = 0
    /\ session_attempts = 0
    /\ start_proficiency = RInt(0)
    /\ start_total_time = 0
    /\ index = 0
    /\ elapsed_time = 0
    /\ exc = ""
    /\ saved = <<>>
    /\ last = Event("none", "", 0, NoRecord, <<>>)

\* One call, "a, b = get_session_metadata(progress)" as at line 529.
ComputeStats ==
    /\ pc \in {"stats", "stats1"}
    /\ LET metadata == get_session_metadata(Deref(heap, progress))
       IN  /\ start_proficiency' = metadata.proficiency
           /\ start_total_time' = metadata.total_time
    /\ locals' = locals \cup {"start_proficiency", "start_total_time"}
    /\ pc' = IF pc = "stats" THEN "stats1" ELSE "stats2"
    /\ last' = Event("stats", pc, 0, NoRecord, <<>>)
    /\ UNCHANGED << file, data, progress, heap, g_hsk_level,
                    g_chinese_to_english, g_random_mode, g_in_order_index,
                    session_correct, session_attempts, index, elapsed_time,
                    exc, saved >>

NextStats == ComputeStats

SpecStats == InitStats /\ [][NextStats]_vars

\* ------------------------------------------------ correct answers in a row
\* The correct branch of run_quiz_for_item applied up to MaxCorrect times in
\* a row to one record.  The record starts at any of the weights and streaks
\* below, fresh or with earlier attempts of 5 ticks each, so that the time
\* bonus is given on some runs and on others not.
MasteryWeights == { MIN_WEIGHT, 125, 500, 875, MAX_WEIGHT }

MasteryStreaks == { 0, 1, 3 }

MasteryEarlier == { 0, 2 }

InitMastery ==
    /\ pc = "answer"
    /\ progress = << 1 >>
    /\ \E w \in MasteryWeights, s \in MasteryStreaks, a \in MasteryEarlier :
          heap = << [word |-> <<"m">>,
                     weight |-> w,
                     streak |-> s,
                     avg_time |-> IF s + a = 0 THEN RInt(0) ELSE RInt(5),
                     total_time |-> 5 * (s + a),
                     attempts |-> s + a,
                     correct |-> s] >>
    /\ file = FileMissing
    /\ data = << ItemMa >>
    /\ g_hsk_level = DEFAULT_HSK
    /\ g_chinese_to_english = TRUE
    /\ g_random_mode = TRUE
    /\ g_in_order_index = 0
    /\ locals = {"data", "progress", "session_correct", "session_attempts"}
    /\ session_correct = 0
    /\ session_attempts = 0
    /\ start_proficiency = RInt(0)
    /\ start_total_time = 0
    /\ index = 0
    /\ elapsed_time = 0
    /\ exc = ""
    /\ saved = <<>>
    /\ last = Event("none", "", 0, NoRecord, <<>>)

\* Lines 401-425 with check_answer true, then lines 539-541.
CorrectOutcomeAgain ==
    /\ pc = "answer"
    /\ session_correct < MaxCorrect
    /\ \E e \in Elapsed :
          LET prog_item == heap[progress[index + 1]]
          IN  /\ heap' = [heap EXCEPT ![progress[index + 1]] =
                                        apply_answer(prog_item, TRUE, e)]
              /\ last' = Event("correct", pc, index, prog_item, <<e>>)
    /\ session_correct' = session_correct + 1
    /\ session_attempts' = session_attempts + 1
    /\ UNCHANGED << pc, file, data, progress, locals, g_hsk_level,
                    g_chinese_to_english, g_random_mode, g_in_order_index,
                    start_proficiency, start_total_time, index, elapsed_time,
                    exc, saved >>

NextMastery == CorrectOutcomeAgain

SpecMastery == InitMastery /\ [][NextMastery]_vars

\* ------------------------------------------------------------ properties
\* The dicts of the loaded progress list, and the dict the last step was about.
Loaded == "progress" \in locals
Records == { heap[progress[i]] : i \in 1..Len(progress) }
Post == heap[progress[last.index + 1]]
TurnElapsed == SumSeq(last.waits)

\* C1: once loaded from records within the weight bounds, every record of the
\* progress list keeps MIN_WEIGHT <= weight <= MAX_WEIGHT through every
\* hint, correct, incorrect, skipped and quit step.
WeightWithinBounds ==
    Loaded => \A r \in Records : MIN_WEIGHT <= r.weight /\ r.weight <= MAX_WEIGHT

\* C1 witness: a correct answer whose reward exceeds the weight left, so that
\* the lower clamp decides the result.
WeightClampedAtMin ==
    /\ last.op = "correct"
    /\ last.pre.weight - Reward([last.pre EXCEPT !.streak = last.pre.streak + 1],
                                TurnElapsed) < MIN_WEIGHT
    /\ Post.weight = MIN_WEIGHT

\* C2: after the progress list is loaded, save_progress has not run while the
\* session is going, and once the session has ended (at the summary prompt or
\* after the process) it has run exactly once, with the progress list as it
\* is in memory, every update included; a write that succeeded left exactly
\* that list in the file.
SavedExactlyOnceAtEnd ==
    Loaded =>
      IF pc \in {"summary", "done"}
      THEN /\ Len(saved) = 1
           /\ saved[1].progress_data = Deref(heap, progress)
           /\ saved[1].written => file = JsonDump(Deref(heap, progress))
      ELSE saved = <<>>

\* C2 witness: the session was interrupted between a hint and its answer, and
\* the one save holds the hinted record with the hint's penalty.
SavedAfterInterruptedHint ==
    /\ last.op = "interrupt" /\ last.at = "hint"
    /\ Len(saved) = 1
    /\ data # <<>>
    /\ saved[1].progress_data[index + 1].weight = RecMa.weight + PENALTY_HINT

\* The positions of the stored list that hold a record under a word key.
StoredUnder(key) ==
    { j \in 1..Len(file.items) :
        file.items[j].has_word /\ file.items[j].rec.word = key }

MaxOf(S) == CHOOSE x \in S : \A y \in S : y <= x

\* C3: loading against a stored list gives one record per vocabulary item, in
\* vocabulary order, each carrying its item's word key: equal in every field
\* to the stored record with that key when there is one (the last one stored,
\* when the key is stored more than once) and the default record otherwise;
\* no record of the result has a word that is not in the vocabulary.
LoadMergesByWord ==
    (pc = "loaded" /\ file.kind = "list") =>
      /\ Len(progress) = Len(data)
      /\ \A i \in 1..Len(data) :
            LET key == WordKey(data[i])
                r == heap[progress[i]]
            IN  /\ r.word = key
                /\ IF StoredUnder(key) = {}
                   THEN r = DefaultRecord(key)
                   ELSE r = file.items[MaxOf(StoredUnder(key))].rec
      /\ \A i \in 1..Len(progress) :
            \E k \in 1..Len(data) : heap[progress[i]].word = WordKey(data[k])

\* C3 witness: one word found in the store, one new word, and a stored word
\* that is not in the vocabulary and not in the result.
LoadFoundNewAndDropped ==
    /\ pc = "loaded" /\ file.kind = "list"
    /\ \E i, k \in 1..Len(data) :
          /\ StoredUnder(WordKey(data[i])) # {}
          /\ heap[progress[i]] = RecMa
          /\ StoredUnder(WordKey(data[k])) = {}
          /\ heap[progress[k]] = DefaultRecord(WordKey(data[k]))
    /\ \E j \in 1..Len(file.items) :
          /\ file.items[j].has_word
          /\ \A i \in 1..Len(progress) :
                heap[progress[i]].word # file.items[j].rec.word

\* C4: in a session started from default records, every record has
\* avg_time = total_time / attempts when attempts > 0, and 0 otherwise.
AvgTimeIsQuotient ==
    (Loaded /\ file.kind # "list") =>
      \A r \in Records :
        r.avg_time = IF r.attempts > 0 THEN Rat(r.total_time, r.attempts)
                     ELSE RInt(0)

\* C5: every record has 0 <= correct <= attempts; no step of a session
\* lowers a record's attempts; and a step changes a record's correct only by
\* adding 1, on a Correct outcome, together with adding 1 to its attempts.
CountersOrdered ==
    /\ [](Loaded => \A r \in Records : 0 <= r.correct /\ r.correct <= r.attempts)
    /\ [][Loaded =>
            \A id \in DOMAIN heap :
              /\ heap'[id].attempts >= heap[id].attempts
              /\ heap'[id].correct # heap[id].correct =>
                   /\ last'.op = "correct"
                   /\ heap'[id].correct = heap[id].correct + 1
                   /\ heap'[id].attempts = heap[id].attempts + 1]_vars

\* C5 witness: a Correct outcome has raised correct and attempts.
CorrectCounted ==
    /\ last.op = "correct"
    /\ Post.correct = last.pre.correct + 1
    /\ Post.attempts = last.pre.attempts + 1

\* The time bonus as the claim states it: on the avg_time before the update.
BonusOnOldAvg(p, e) ==
    IF RLess(RInt(0), p.avg_time) /\ RLess(RInt(e), p.avg_time)
    THEN REWARD_TIME ELSE 0

\* C6: a Correct outcome with elapsed time e on a record (w, s, a, c, T, A)
\* leaves streak s+1, attempts a+1, correct c+1, total_time T+e, avg_time
\* (T+e)/(a+1) and weight max(MIN_WEIGHT, w - reward), reward being
\* 1.0 + 0.25*(s+1), plus 0.5 exactly when A > 0 and e < A.
CorrectOutcome ==
    last.op = "correct" =>
      LET p == last.pre
          e == TurnElapsed
          reward == REWARD_CORRECT + REWARD_STREAK * (p.streak + 1)
                    + BonusOnOldAvg(p, e)
      IN  Post = [word |-> p.word,
                  weight |-> Max(MIN_WEIGHT, p.weight - reward),
                  streak |-> p.streak + 1,
                  avg_time |-> Rat(p.total_time + e, p.attempts + 1),
                  total_time |-> p.total_time + e,
                  attempts |-> p.attempts + 1,
                  correct |-> p.correct + 1]

\* C6 witness: a correct answer faster than the old avg_time and not faster
\* than the recomputed one, rewarded with the time bonus.
CorrectWithBonusOnOldAvg ==
    /\ last.op = "correct"
    /\ BonusOnOldAvg(last.pre, TurnElapsed) = REWARD_TIME
    /\ ~RLess(RInt(TurnElapsed), Post.avg_time)
    /\ Post.weight = last.pre.weight - REWARD_CORRECT - REWARD_STREAK - REWARD_TIME

\* C7: a Skipped outcome with elapsed time e adds e to total_time and sets
\* avg_time to the new total_time over the new attempts.
SkippedAddsElapsed ==
    last.op = "skipped" =>
      /\ Post.total_time = last.pre.total_time + TurnElapsed
      /\ Post.avg_time = Rat(Post.total_time, Post.attempts)

\* C8: a Skipped outcome on a record with weight w leaves weight
\* min(MAX_WEIGHT, w + 3.0), streak 0, attempts one higher, correct unchanged.
SkippedOutcome ==
    last.op = "skipped" =>
      /\ Post.weight = Min(MAX_WEIGHT, last.pre.weight + PENALTY_SKIP)
      /\ Post.streak = 0
      /\ Post.attempts = last.pre.attempts + 1
      /\ Post.correct = last.pre.correct

\* C8 witness: weight 5.0 with streak 3 skipped to weight 8.0 with streak 0.
SkippedFromFiveToEight ==
    /\ last.op = "skipped"
    /\ last.pre.weight = 500 /\ last.pre.streak = 3
    /\ Post.weight = 800 /\ Post.streak = 0

\* C9: an Incorrect outcome with elapsed time e on a record of weight w leaves
\* weight min(MAX_WEIGHT, w + 4.0), streak 0, attempts one higher, correct
\* unchanged, total_time e higher and avg_time = total_time / attempts.
IncorrectOutcome ==
    last.op = "incorrect" =>
      LET p == last.pre
          e == TurnElapsed
      IN  Post = [word |-> p.word,
                  weight |-> Min(MAX_WEIGHT, p.weight + PENALTY_INCORRECT),
                  streak |-> 0,
                  avg_time |-> Rat(p.total_time + e, p.attempts + 1),
                  total_time |-> p.total_time + e,
                  attempts |-> p.attempts + 1,
                  correct |-> p.correct]

\* C9 witness: weight 0.01 answered incorrectly becomes 4.01.
IncorrectFromMinWeight ==
    /\ last.op = "incorrect"
    /\ last.pre.weight = MIN_WEIGHT
    /\ Post.weight = 401 /\ Post.streak = 0

\* C10: a hint leaves weight min(MAX_WEIGHT, weight + 1.5) and every other
\* field of the record as it was, and the program waits for the answer to the
\* same item with the first waiting period kept; the outcome that ends a
\* hinted turn adds both waiting periods to total_time.
HintedStep ==
    /\ last.op = "hint" =>
         /\ Post = [last.pre EXCEPT
                      !.weight = Min(MAX_WEIGHT, last.pre.weight + PENALTY_HINT)]
         /\ pc = "hint"
         /\ index = last.index
         /\ elapsed_time = last.waits[1]
    /\ (last.at = "hint" /\ last.op \in {"correct", "incorrect"}) =>
         /\ Len(last.waits) = 2
         /\ Post.total_time = last.pre.total_time + last.waits[1] + last.waits[2]

\* C10 witness: a hinted turn that waited 1 tick before the hint and 3 after
\* it has ended, 4 ticks added to the record's total_time.
HintedTurnEnded ==
    /\ last.at = "hint" /\ last.op = "correct"
    /\ last.waits = <<1, 3>>
    /\ last.pre.weight = RecMa.weight + PENALTY_HINT
    /\ Post.total_time = last.pre.total_time + 4

\* C11: a turn that ends in Quit leaves every record, the presented one
\* included, as it was when the item was presented, leaves both session
\* counters as they were, and leaves the loop: no further index is selected
\* and the program is in its exit path.
QuitTurnFrame ==
    [][last'.op = "quit" =>
         /\ pc = "answer"
         /\ heap' = heap /\ progress' = progress
         /\ session_correct' = session_correct
         /\ session_attempts' = session_attempts
         /\ index' = index /\ g_in_order_index' = g_in_order_index
         /\ pc' \in {"summary", "done"}]_vars

\* C11 witness: Quit at the second turn of a session, after an update of the
\* same record in the first turn; the record is as it was presented.
QuitAfterUpdate ==
    /\ last.op = "quit"
    /\ session_attempts = 1
    /\ last.pre.attempts = RecMa.attempts + 1
    /\ Post = last.pre
    /\ pc = "summary"

\* C12: a turn is Presented, then optional Hinted steps, then one of Correct,
\* Incorrect, Skipped and Quit; at the prompt that follows a hint each of the
\* four outcomes can still end the turn, the skip and the quit command
\* ending it as Skipped and as Quit.
OutcomesAfterHint ==
    /\ last.op \in {"correct", "incorrect", "skipped", "quit", "hint"} =>
          last.at \in {"answer", "hint"}
    /\ pc = "hint" =>
          \A outcome \in {"correct", "incorrect", "skipped", "quit"} :
             ENABLED (HintAnswer /\ last'.op = outcome)

\* C13: a progress list whose records have pairwise distinct words and
\* match the vocabulary list, once written by save_progress and read back by
\* load_progress against the same vocabulary list, is the same list: same
\* length, same order, same value of every field.
DistinctWords(progress_data) ==
    \A i, j \in 1..Len(progress_data) :
        progress_data[i].word = progress_data[j].word => i = j

SaveLoadRoundTrip ==
    (/\ pc = "loaded"
     /\ saved # <<>>
     /\ saved[1].written
     /\ DistinctWords(saved[1].progress_data)) =>
        Deref(heap, progress) = saved[1].progress_data

\* C13 witness: two records with different words and different histories
\* were written and read back.
RoundTripOfTwoRecords ==
    /\ pc = "loaded"
    /\ saved # <<>>
    /\ saved[1].written
    /\ Len(progress) = 2
    /\ Deref(heap, progress) = << RecMa, RecNi >>

SequentialCursor ==
    /\ pc \in {"level", "settings"} => g_in_order_index = 0
    /\ (~g_random_mode /\ pc \in {"continue", "answer", "hint"}) =>
          /\ Len(data) >= 1
          /\ index = session_attempts % Len(data)
          /\ g_in_order_index = (index + 1) % Len(data)
          /\ g_in_order_index \in 0..(Len(data) - 1)

\* C15 witness: the third selection over two items is index 0 again, after
\* index 1 was presented.
SequentialWrappedAround ==
    /\ ~g_random_mode
    /\ pc = "continue"
    /\ Len(data) = 2
    /\ session_attempts = 2
    /\ last.index = 1
    /\ index = 0 /\ g_in_order_index = 1

\* C16: in weighted-random mode with at least one item, every selected index
\* is within [0, size), and in every state of a session every index, the one
\* presented in the preceding turn included, is among those the next
\* selection can return, every weight being at least MIN_WEIGHT > 0.
Weights == [i \in 1..Len(progress) |-> heap[progress[i]].weight]

RandomSelectable ==
    /\ (g_random_mode /\ pc \in {"continue", "answer", "hint"}) =>
          index \in 0..(Len(data) - 1)
    /\ (Loaded /\ Len(data) >= 1) =>
          /\ \A i \in 1..Len(data) : Weights[i] >= MIN_WEIGHT
          /\ RandomChoices(Len(data), Weights) = 0..(Len(data) - 1)

\* C16 witness: with two items whose weights differ, an item at MIN_WEIGHT
\* that was answered correctly is selected again for the very next turn.
RandomSelectedSameAgain ==
    /\ g_random_mode
    /\ pc = "continue"
    /\ Len(data) = 2
    /\ last.op = "correct"
    /\ index = last.index
    /\ Post.weight = MIN_WEIGHT
    /\ Weights[1] # Weights[2]

\* C17: with an empty vocabulary list the session ends with the condition
\* EmptyCorpus, raised before a selection is attempted and not by the
\* selection step, and no record is selected or changed.
EmptyCorpusBeforeSelection ==
    (Loaded /\ data = <<>>) =>
        /\ progress = <<>> /\ heap = <<>>
        /\ pc \notin {"continue", "answer", "hint"}
        /\ exc \notin {"IndexError", "ZeroDivisionError", "ValueError"}
        /\ "start_total_time" \in locals => exc = "EmptyCorpus"

\* C18: for an empty progress list the statistics are (0.0, 0.0); otherwise
\* proficiency is (1 - (mean weight - 0.01) / 9.99) * 100 clamped to
\* [0, 100], that is (MAX_WEIGHT - mean weight) / 9.99 * 100 clamped, 0 when
\* every weight is MAX_WEIGHT and 100 when every weight is MIN_WEIGHT, and
\* the total time is the sum of the records' total_time; a call changes no
\* record, and a second call on the same list gives the same pair.
ClampPercent(x) ==
    IF RLess(x, RInt(0)) THEN RInt(0)
    ELSE IF RLess(RInt(100), x) THEN RInt(100)
    ELSE x

StatsOf(recs) ==
    LET n == Len(recs)
        total_weight == SumSeq([i \in 1..n |-> recs[i].weight])
    IN  IF n = 0 THEN RInt(0)
        ELSE ClampPercent(Rat((MAX_WEIGHT * n - total_weight) * 100,
                              (MAX_WEIGHT - MIN_WEIGHT) * n))

StatsComputed ==
    /\ [](pc \in {"stats1", "stats2"} =>
           LET recs == Deref(heap, progress)
           IN  /\ start_proficiency = StatsOf(recs)
               /\ start_total_time =
                     SumSeq([i \in 1..Len(recs) |-> recs[i].total_time])
               /\ ~RLess(start_proficiency, RInt(0))
               /\ ~RLess(RInt(100), start_proficiency)
               /\ recs = <<>> => start_proficiency = RInt(0)
               /\ (recs # <<>> /\ \A i \in 1..Len(recs) : recs[i].weight = MAX_WEIGHT)
                     => start_proficiency = RInt(0)
               /\ (recs # <<>> /\ \A i \in 1..Len(recs) : recs[i].weight = MIN_WEIGHT)
                     => start_proficiency = RInt(100))
    /\ [][(pc = "stats" \/ pc = "stats1") =>
            (/\ heap' = heap /\ progress' = progress
             /\ pc = "stats1" =>
                   (/\ start_proficiency' = start_proficiency
                    /\ start_total_time' = start_total_time))]_vars

\* C18 witness: two calls on records of weight 5.0 and 0.01 with 3 ticks
\* each; proficiency 74950/999, a little above 75, and total time 6.
StatsOfTwoRecords ==
    /\ pc = "stats2"
    /\ Len(progress) = 2
    /\ Weights = << 500, MIN_WEIGHT >>
    /\ start_total_time = 6
    /\ start_proficiency = [n |-> 74950, d |-> 999]

\* C19: a turn changes at most the record at the selected index; the record
\* at every other index keeps the value of every field, also when two items
\* of the vocabulary list have the same word.
OnlySelectedRecordChanges ==
    [][(pc = "answer" \/ pc = "hint") =>
          /\ progress' = progress
          /\ \A i \in 1..Len(progress) :
                i # index + 1 => heap'[progress[i]] = heap[progress[i]]]_vars

\* C20: once the progress list is loaded, every way the session ends (Quit
\* in a turn, the quit command or an interruption at the settings prompt, an
\* interruption in a turn) saves the list and then computes the summary
\* from start-of-session values and counters that are bound; the exit path
\* never fails on a name that was not yet assigned.
ExitPathCompletes ==
    (Loaded /\ pc \in {"summary", "done"}) =>
        /\ saved # <<>>
        /\ {"start_proficiency", "start_total_time",
            "session_correct", "session_attempts"} \subseteq locals
        /\ exc # "UnboundLocalError"

\* C21: for a progress list with pairwise distinct words, between turns the
\* sum of attempts over the list, less that sum at the start of the session,
\* is the session's attempt counter, and likewise for correct; an
\* interruption in the middle of a turn keeps both equalities.  The
\* counters are 0 when the first item is selected, and every step of the
\* session, a hint and an interruption included, adds to the two sums what
\* it adds to the two counters.
SumAttempts(h, refs) == SumSeq([i \in 1..Len(refs) |-> h[refs[i]].attempts])

SumCorrect(h, refs) == SumSeq([i \in 1..Len(refs) |-> h[refs[i]].correct])

SessionCountersMatchSums ==
    /\ []((last.op = "settings" /\ pc = "continue") =>
            session_attempts = 0 /\ session_correct = 0)
    /\ [][(Loaded /\ DistinctWords(Deref(heap, progress))) =>
            /\ SumAttempts(heap', progress') - SumAttempts(heap, progress)
                  = session_attempts' - session_attempts
            /\ SumCorrect(heap', progress') - SumCorrect(heap, progress)
                  = session_correct' - session_correct]_vars

\* C21 witness: a session over two default records, one turn answered
\* correctly, interrupted at the prompt that follows a hint in the second
\* turn: the sums are those of the first turn, as the counters are.
InterruptedWithCountersInStep ==
    /\ last.op = "interrupt" /\ last.at = "hint"
    /\ Len(data) = 2
    /\ DistinctWords(Deref(heap, progress))
    /\ session_attempts = 1 /\ session_correct = 1
    /\ SumAttempts(heap, progress) = 1
    /\ SumCorrect(heap, progress) = 1

\* C22: a record with 0.01 <= weight <= 10.0 and streak >= 0 that gets six
\* Correct outcomes in a row, nothing else in between, has weight exactly
\* MIN_WEIGHT after the sixth, and after every further Correct outcome.
SixCorrectReachMinWeight ==
    (last.op = "correct" /\ session_correct >= 6) => Post.weight = MIN_WEIGHT

\* C22 witness: from weight 10.0 and streak 0 with no time bonus, five
\* Correct outcomes leave weight 1.25, and the sixth leaves 0.01.
SixthCorrectFromMaxWeight ==
    /\ last.op = "correct"
    /\ session_correct = 6
    /\ last.pre.weight = 125 /\ last.pre.streak = 5
    /\ Post.weight = MIN_WEIGHT /\ Post.streak = 6

====
